---- MODULE Spec2Model ----
(***************************************************************************)
(* Model of coulomb_integral.py: the PAW correction machinery of one       *)
(* species object (PAWCoulombIntegral) and the plane-wave Coulomb sum      *)
(* (PWCoulombIntegral).                                                    *)
(*                                                                         *)
(* Arithmetic.  The program computes in floating point; the model computes *)
(* the same expressions exactly, over the integers.  The radial grid is    *)
(* logarithmic with ratio 2 (rgrid[k] = 2^k), so the multipole kernel      *)
(* r_<^l / r_>^(l+1) is an integer multiple of 1/KScale.  sqrt(pi) is      *)
(* carried as the unit: 2*sqrt(pi) is 2 and 4*pi is 4, and every 4pi/(2l+1)*)
(* is scaled by 15 so that it stays integral for l <= 2.  Gaunt values are *)
(* counted in units of 5e-7, so the pruning threshold 1e-6 is 2.           *)
(* Python indices are kept (0-based) in every array.                       *)
(***************************************************************************)
EXTENDS Integers, Sequences, FiniteSets, TLC

VARIABLES
    \* ---- PAWCoulombIntegral: data of the species (pawpotcar) ----
    proj_l, ilm, lmidx, rcomp_idx, paw_ae_wfc, paw_ps_wfc, gaunt, glraw,
    \* ---- PAWCoulombIntegral: attributes set by the class ----
    gl, coulomb_kernel, Delta_Li1i2, integral_1234_ae, integral_1234_ps,
    integral_phi12_gl, integral_gl, DeltaC_1234,
    \* ---- observation of the calls: computations run, last call ----
    ncomp, ret,
    \* ---- set_comp_function.find_q: the function j_L and the locals ----
    roots, fq_pc, nfound, xinit, x1, x2, fx1, fx2, fq_ret, nsteps,
    \* ---- set_comp_function.find_alpha and the gl row built from it ----
    al_pc, Amat, quad_converged, al_a, gl_row,
    \* ---- PWCoulombIntegral: the grid, the cell, the bands; its attribute
    \* _gvectors_cart; the last coulomb_integral call ----
    ngrid, Bcell, wfc, gvectors_cart_attr, pw_ret

pawData  == <<proj_l, ilm, lmidx, rcomp_idx, paw_ae_wfc, paw_ps_wfc, gaunt, glraw>>
pawAttrs == <<gl, coulomb_kernel, Delta_Li1i2, integral_1234_ae,
              integral_1234_ps, integral_phi12_gl, integral_gl, DeltaC_1234>>
pawVars  == <<pawData, pawAttrs, ncomp, ret>>
fqVars   == <<roots, fq_pc, nfound, xinit, x1, x2, fx1, fx2, fq_ret, nsteps>>
alVars   == <<al_pc, Amat, quad_converged, al_a, gl_row>>
pwVars   == <<ngrid, Bcell, wfc, gvectors_cart_attr, pw_ret>>
vars     == <<pawVars, fqVars, alVars, pwVars>>
notPaw   == <<fqVars, alVars, pwVars>>
notFq    == <<pawVars, alVars, pwVars>>
notAl    == <<pawVars, fqVars, pwVars>>
notPw    == <<pawVars, fqVars, alVars>>

\* An attribute the object does not have yet (hasattr is False): the empty
\* array, which no computed tensor is.
Unset == << >>

-----------------------------------------------------------------------------
\* Bounds of the model.
NGrid == 3          \* radial grid points

\* Stand-ins for the program's constants (see the header).
GauntThreshold == 2     \* 1E-6 in units of 5e-7
TwoSqrtPi == 2          \* 2 * np.sqrt(np.pi), in units of sqrt(pi)

Abs(x) == IF x < 0 THEN -x ELSE x
Min(a, b) == IF a < b THEN a ELSE b
Max(a, b) == IF a > b THEN a ELSE b

RECURSIVE Pow(_, _)
Pow(b, e) == IF e = 0 THEN 1 ELSE b * Pow(b, e - 1)

\* np.sum of f over the indices lo..hi.
RECURSIVE Sum(_, _, _)
Sum(f, lo, hi) == IF lo > hi THEN 0 ELSE f[lo] + Sum(f, lo + 1, hi)

\* Forces a lazily built array into a table, so that it is computed once.
Arr(f) == IF f = f THEN f ELSE f

-----------------------------------------------------------------------------
\* The radial grid and its Simpson weights (pawpotcar).
Grid == 0 .. NGrid - 1
rgrid == [k \in Grid |-> Pow(2, k)]
rad_simp_w == [k \in Grid |->
    IF k = 0 \/ k = NGrid - 1 THEN 1 ELSE IF k % 2 = 1 THEN 4 ELSE 2]

\* Simpson integration of f on the radial grid: the weighted sum over the grid,
\* over the points inside the augmentation sphere only when inside_rcomp.
radial_simp_int(f, inside_rcomp) ==
    Sum([k \in Grid |-> IF inside_rcomp /\ k >= rcomp_idx THEN 0
                        ELSE rad_simp_w[k] * f[k]], 0, NGrid - 1)

\* The value of inside_rcomp when a call does not pass it.
InsideRcompDefault == FALSE

\* Projector channels.
npro == Len(proj_l)
ProjL(n) == proj_l[n + 1]
RECURSIVE MaxProjFrom(_)
MaxProjFrom(n) == IF n >= npro THEN 0 ELSE Max(ProjL(n), MaxProjFrom(n + 1))
\* lmax = self.proj_l.max() * 2 + 1
lmax == MaxProjFrom(0) * 2 + 1

\* pawpotcar.ilm: every (n, l, m), n first, then m = -l..l.  The object holds
\* the list as its attribute ilm.
RECURSIVE IlmFrom(_)
IlmFrom(n) == IF n >= npro THEN <<>>
              ELSE [j \in 1 .. 2 * ProjL(n) + 1 |-> <<n, ProjL(n), j - 1 - ProjL(n)>>]
                   \o IlmFrom(n + 1)
nch == Len(ilm)
Ch == 0 .. nch - 1
ChN(i) == ilm[i + 1][1]
ChL(i) == ilm[i + 1][2]
ChM(i) == ilm[i + 1][3]

\* lmidx: every (l, m), l = 0..lmax-1, then m = -l..l.  The property builds the
\* list on its first use and keeps it; the model holds it from the start.
RECURSIVE LmFrom(_)
LmFrom(l) == IF l >= lmax THEN <<>>
             ELSE [j \in 1 .. 2 * l + 1 |-> <<l, j - 1 - l>>] \o LmFrom(l + 1)
nL == Len(lmidx)
LIdx == 0 .. nL - 1
LmL(iL) == lmidx[iL + 1][1]
LmM(iL) == lmidx[iL + 1][2]

\* The Gaunt coefficient G(l1,l2,l,m1,m2,m) of the table in use: zero unless the
\* selection rules hold, else the table's value for the pair being diagonal
\* (m1 = m2) or not.  Every table of the family is symmetric in (l1,m1),(l2,m2).
GauntSelect(l1, l2, l, m1, m2, m) ==
    /\ Abs(l1 - l2) <= l /\ l <= l1 + l2
    /\ (l1 + l2 + l) % 2 = 0
    /\ Abs(m) \in {Abs(m1) + Abs(m2), Abs(Abs(m1) - Abs(m2))}
GauntTable(l1, l2, l, m1, m2, m) ==
    IF ~GauntSelect(l1, l2, l, m1, m2, m) THEN 0
    ELSE IF m1 = m2 THEN gaunt.diag ELSE gaunt.off

\* 4 * np.pi / (2 * l + 1), times 15.
FourPiOver(l) == 60 \div (2 * l + 1)

\* r_<^l / r_>^(l+1) at grid points a and b, times KScale.
KScale == Pow(rgrid[NGrid - 1], 3)
Kern(l, a, b) ==
    (KScale * Pow(Min(rgrid[a], rgrid[b]), l)) \div Pow(Max(rgrid[a], rgrid[b]), l + 1)

-----------------------------------------------------------------------------
\* get_coulomb_kernel: [l, r, r'] for l = 0..self.lmax.
Compute_coulomb_kernel ==
    [t \in (0 .. MaxProjFrom(0)) \X Grid \X Grid |->
        Kern(t[1], t[2], t[3]) * FourPiOver(t[1])]

\* get_Delta_Li1i2: the radial part, then the assembly with the Gaunt table.
Delta_integrand_ps_once(l, n1, n2) ==
    [k \in Grid |-> Pow(rgrid[k], l) *
        (paw_ae_wfc[n1][k] * paw_ae_wfc[n2][k] - paw_ps_wfc[n1][k])]
Delta_integrand(l, n1, n2) ==
    [k \in Grid |-> Pow(rgrid[k], l) *
        (paw_ae_wfc[n1][k] * paw_ae_wfc[n2][k] - paw_ps_wfc[n1][k] * paw_ps_wfc[n2][k])]
Delta_radial(l, n1, n2) ==
    radial_simp_int(Delta_integrand(l, n1, n2), InsideRcompDefault)
Compute_Delta_Li1i2 ==
    LET radial_integral == Arr([t \in (0 .. lmax - 1) \X (0 .. npro - 1) \X (0 .. npro - 1) |->
                                  Delta_radial(t[1], t[2], t[3])])
    IN  [t \in LIdx \X Ch \X Ch |->
            radial_integral[<<LmL(t[1]), ChN(t[2]), ChN(t[3])>>] *
            GauntTable(ChL(t[2]), ChL(t[3]), LmL(t[1]), ChM(t[2]), ChM(t[3]), LmM(t[1]))]

\* get_integral_1234: the partial waves the double integral is taken over.
Wav1234(use_ps_wav) == IF use_ps_wav THEN paw_ae_wfc ELSE paw_ps_wfc

\* The radial double integral over the waves wav: the outer sum over r' with
\* rad_simp_w, the inner integral over r with radial_simp_int.
Radial1234(wav, l, n1, n2, n3, n4) ==
    Sum([irp \in Grid |->
            radial_simp_int([k \in Grid |-> wav[n1][k] * wav[n2][k] * Kern(l, irp, k)],
                            InsideRcompDefault)
            * wav[n3][irp] * wav[n4][irp] * rad_simp_w[irp]],
        0, NGrid - 1)

\* One summand of integral_1234[i1,i2,i3,i4]: the term of L = lmidx[iL],
\* skipped when |G12| < 1E-6.
Term1234(radial_integral, iL, i1, i2, i3, i4) ==
    LET l   == LmL(iL)
        G12 == GauntTable(ChL(i1), ChL(i2), l, ChM(i1), ChM(i2), LmM(iL))
        G34 == GauntTable(ChL(i3), ChL(i4), l, ChM(i3), ChM(i4), LmM(iL))
    IN  IF Abs(G12) < GauntThreshold THEN 0
        ELSE FourPiOver(l) * radial_integral[<<l, ChN(i1), ChN(i2), ChN(i3), ChN(i4)>>]
             * G12 * G34

Integral1234(wav) ==
    LET P == 0 .. npro - 1
        radial_integral == Arr([t \in (0 .. lmax - 1) \X P \X P \X P \X P |->
                                  Radial1234(wav, t[1], t[2], t[3], t[4], t[5])])
    IN  [q \in Ch \X Ch \X Ch \X Ch |->
            Sum([iL \in LIdx |-> Term1234(radial_integral, iL, q[1], q[2], q[3], q[4])],
                0, nL - 1)]

Compute_integral_1234(use_ps_wav) == Integral1234(Wav1234(use_ps_wav))

\* get_integral_phi12_gl: one summand of radial_integral[n1, n2, l3, l], at
\* the index irp of the loop and for the value rprime of its loop variable.
Phi12Gl_summand(inside_rcomp, rprime, n1, n2, l3, l, irp) ==
    FourPiOver(l)
    * radial_simp_int([k \in Grid |-> paw_ps_wfc[n1][k] * paw_ps_wfc[n2][k]
                                       * Kern(l, irp, k)], inside_rcomp)
    * rprime * rprime
    * gl[l3][irp]
    * rad_simp_w[irp]

\* radial_integral[n1, n2, l3, l]: for irp, rprime in
\* enumerate(glr[l, 0:rcomp_idx]), the inner integral with inside_rcomp=False.
Phi12Gl_radial(n1, n2, l3, l) ==
    Sum([irp \in 0 .. rcomp_idx - 1 |->
            Phi12Gl_summand(FALSE, gl[l][irp], n1, n2, l3, l, irp)],
        0, rcomp_idx - 1)

Phi12Gl_term(radial_integral, jL, i1, i2, iL) ==
    LET l   == LmL(jL)
        m   == LmM(jL)
        G12 == GauntTable(ChL(i1), ChL(i2), l, ChM(i1), ChM(i2), m)
        G3l == GauntTable(LmL(iL), l, 0, LmM(iL), m, 0)
    IN  IF Abs(G12) < GauntThreshold THEN 0
        ELSE radial_integral[<<ChN(i1), ChN(i2), LmL(iL), l>>] * TwoSqrtPi * G12 * G3l

\* The assembly of integral_phi12_gl[i1, i2, iL] from the radial part.
Phi12Gl_assemble(radial_integral) ==
    [t \in Ch \X Ch \X LIdx |->
        Sum([jL \in LIdx |-> Phi12Gl_term(radial_integral, jL, t[1], t[2], t[3])],
            0, nL - 1)]

\* The index set of radial_integral: [n1, n2, l3, l].
Phi12Gl_shape == (0 .. npro - 1) \X (0 .. npro - 1) \X (0 .. lmax - 1) \X (0 .. lmax - 1)

Compute_integral_phi12_gl ==
    Phi12Gl_assemble(Arr([t \in Phi12Gl_shape |-> Phi12Gl_radial(t[1], t[2], t[3], t[4])]))

\* get_integral_gl: an array of L.size = 2 * len(L) entries; the term of
\* (l1,m1),(l2,m2) is added to entry l1.
IntegralGl_term(iL1, iL2) ==
    LET l1 == LmL(iL1)
        l2 == LmL(iL2)
        Gl1l2 == GauntTable(l1, l2, 0, LmM(iL1), LmM(iL2), 0)
    IN  IF Abs(Gl1l2) < GauntThreshold THEN 0
        ELSE Sum([irp \in 0 .. rcomp_idx - 1 |->
                    FourPiOver(l2)
                    * radial_simp_int([k \in Grid |->
                          rgrid[k] * rgrid[k] * rgrid[irp] * rgrid[irp]
                          * Kern(l2, irp, k) * gl[l1][k] * gl[l1][irp]],
                          InsideRcompDefault)
                    * Gl1l2 * Gl1l2 * rad_simp_w[irp]],
                 0, rcomp_idx - 1)

Compute_integral_gl ==
    [j \in 0 .. 2 * nL - 1 |->
        Sum([iL1 \in LIdx |->
                IF LmL(iL1) # j THEN 0
                ELSE Sum([iL2 \in LIdx |-> IntegralGl_term(iL1, iL2)], 0, nL - 1)],
            0, nL - 1)]

\* get_DeltaC_1234, from the four tensors it obtains from the getters.
FirstTerm(ae, ps, q) == (ae[q] - ps[q]) \div 2
SecondTerm(D, Ipg, Ig, q) ==
    Sum([iL \in LIdx |->
            (D[<<iL, q[1], q[2]>>] * Ipg[<<q[1], q[2], iL>>]
             + D[<<iL, q[3], q[4]>>] * Ipg[<<q[3], q[4], iL>>]) \div 2
            + D[<<iL, q[1], q[2]>>] * Ig[iL] * D[<<iL, q[3], q[4]>>]],
        0, nL - 1)
\* (first_term - second_term) * AUTOA * 2 * RYTOEV, in units of AUTOA * RYTOEV.
DeltaC(D, Ipg, Ig, ae, ps) ==
    [q \in Ch \X Ch \X Ch \X Ch |->
        (FirstTerm(ae, ps, q) - SecondTerm(D, Ipg, Ig, q)) * 2]

-----------------------------------------------------------------------------
\* The attributes and the calls of one PAWCoulombIntegral object.

Getters == {"get_coulomb_kernel", "get_Delta_Li1i2", "get_integral_1234_ae",
            "get_integral_1234_ps", "get_integral_phi12_gl", "get_integral_gl",
            "get_DeltaC_1234"}

\* hasattr(self, ...)
hasattr_never(attr) == FALSE
hasattr(attr) == attr # Unset

\* The body of a getter, called on the attribute attr: the stored value when
\* the attribute exists, the computed one otherwise.
Got(attr, computed) == IF hasattr(attr) THEN attr ELSE Arr(computed)
Ran(attr) == IF hasattr(attr) THEN 0 ELSE 1

\* __init__ -> set_comp_function: gl for l = 0..lmax-1 from the Bessel
\* combinations glraw, then gl[:, rcomp_idx:] = 0.
ZeroFrom_past(g, idx) == [l \in DOMAIN g |-> [k \in Grid |-> IF k > idx THEN 0 ELSE g[l][k]]]
ZeroFrom(g, idx) == [l \in DOMAIN g |-> [k \in Grid |-> IF k >= idx THEN 0 ELSE g[l][k]]]
set_comp_function ==
    /\ gl = Unset
    /\ gl' = ZeroFrom(glraw, rcomp_idx)
    /\ UNCHANGED <<notPaw, pawData, coulomb_kernel, Delta_Li1i2, integral_1234_ae,
                   integral_1234_ps, integral_phi12_gl, integral_gl, DeltaC_1234,
                   ncomp, ret>>

get_coulomb_kernel ==
    /\ gl # Unset
    /\ coulomb_kernel' = Got(coulomb_kernel, Compute_coulomb_kernel)
    /\ ncomp' = [ncomp EXCEPT !["get_coulomb_kernel"] = @ + Ran(coulomb_kernel)]
    /\ ret' = [call |-> "get_coulomb_kernel", val |-> coulomb_kernel']
    /\ UNCHANGED <<notPaw, pawData, gl, Delta_Li1i2, integral_1234_ae, integral_1234_ps,
                   integral_phi12_gl, integral_gl, DeltaC_1234>>

get_Delta_Li1i2 ==
    /\ gl # Unset
    /\ Delta_Li1i2' = Got(Delta_Li1i2, Compute_Delta_Li1i2)
    /\ ncomp' = [ncomp EXCEPT !["get_Delta_Li1i2"] = @ + Ran(Delta_Li1i2)]
    /\ ret' = [call |-> "get_Delta_Li1i2", val |-> Delta_Li1i2']
    /\ UNCHANGED <<notPaw, pawData, gl, coulomb_kernel, integral_1234_ae, integral_1234_ps,
                   integral_phi12_gl, integral_gl, DeltaC_1234>>

get_integral_1234(use_ps_wav) ==
    /\ gl # Unset
    /\ IF use_ps_wav
       THEN /\ integral_1234_ps' = Got(integral_1234_ps, Compute_integral_1234(TRUE))
            /\ ncomp' = [ncomp EXCEPT !["get_integral_1234_ps"] = @ + Ran(integral_1234_ps)]
            /\ ret' = [call |-> "get_integral_1234_ps", val |-> integral_1234_ps']
            /\ UNCHANGED integral_1234_ae
       ELSE /\ integral_1234_ae' = Got(integral_1234_ae, Compute_integral_1234(FALSE))
            /\ ncomp' = [ncomp EXCEPT !["get_integral_1234_ae"] = @ + Ran(integral_1234_ae)]
            /\ ret' = [call |-> "get_integral_1234_ae", val |-> integral_1234_ae']
            /\ UNCHANGED integral_1234_ps
    /\ UNCHANGED <<notPaw, pawData, gl, coulomb_kernel, Delta_Li1i2,
                   integral_phi12_gl, integral_gl, DeltaC_1234>>

get_integral_phi12_gl ==
    /\ gl # Unset
    /\ integral_phi12_gl' = Got(integral_phi12_gl, Compute_integral_phi12_gl)
    /\ ncomp' = [ncomp EXCEPT !["get_integral_phi12_gl"] = @ + Ran(integral_phi12_gl)]
    /\ ret' = [call |-> "get_integral_phi12_gl", val |-> integral_phi12_gl']
    /\ UNCHANGED <<notPaw, pawData, gl, coulomb_kernel, Delta_Li1i2, integral_1234_ae,
                   integral_1234_ps, integral_gl, DeltaC_1234>>

get_integral_gl ==
    /\ gl # Unset
    /\ integral_gl' = Got(integral_gl, Compute_integral_gl)
    /\ ncomp' = [ncomp EXCEPT !["get_integral_gl"] = @ + Ran(integral_gl)]
    /\ ret' = [call |-> "get_integral_gl", val |-> integral_gl']
    /\ UNCHANGED <<notPaw, pawData, gl, coulomb_kernel, Delta_Li1i2, integral_1234_ae,
                   integral_1234_ps, integral_phi12_gl, DeltaC_1234>>

\* get_DeltaC_1234: returns the stored tensor, or calls the five getters it
\* needs (each storing what it computes) and assembles and stores the tensor.
get_DeltaC_1234 ==
    /\ gl # Unset
    /\ IF hasattr(DeltaC_1234)
       THEN UNCHANGED <<Delta_Li1i2, integral_phi12_gl, integral_gl, integral_1234_ae,
                        integral_1234_ps, DeltaC_1234, ncomp>>
       ELSE /\ Delta_Li1i2' = Got(Delta_Li1i2, Compute_Delta_Li1i2)
            /\ integral_phi12_gl' = Got(integral_phi12_gl, Compute_integral_phi12_gl)
            /\ integral_gl' = Got(integral_gl, Compute_integral_gl)
            /\ integral_1234_ae' = Got(integral_1234_ae, Compute_integral_1234(FALSE))
            /\ integral_1234_ps' = Got(integral_1234_ps, Compute_integral_1234(TRUE))
            /\ DeltaC_1234' = DeltaC(Delta_Li1i2', integral_phi12_gl', integral_gl',
                                     integral_1234_ae', integral_1234_ps')
            /\ ncomp' = [g \in Getters |->
                   ncomp[g] + CASE g = "get_Delta_Li1i2" -> Ran(Delta_Li1i2)
                                [] g = "get_integral_phi12_gl" -> Ran(integral_phi12_gl)
                                [] g = "get_integral_gl" -> Ran(integral_gl)
                                [] g = "get_integral_1234_ae" -> Ran(integral_1234_ae)
                                [] g = "get_integral_1234_ps" -> Ran(integral_1234_ps)
                                [] g = "get_DeltaC_1234" -> 1
                                [] OTHER -> 0]
    /\ ret' = [call |-> "get_DeltaC_1234", val |-> DeltaC_1234']
    /\ UNCHANGED <<notPaw, pawData, gl, coulomb_kernel>>

\* The species data a model run starts from.
ProjConfigs == {<<0, 0>>, <<1>>}
GauntTables == {[diag |-> 2, off |-> 2], [diag |-> 2, off |-> 1],
                [diag |-> 2, off |-> -2], [diag |-> 1, off |-> 2]}
\* Partial waves: 1 on the grid but for the innermost point, where the
\* all-electron wave is a[n] and the pseudo wave p[n], values of WavInner.
WavInner == {0, 1}
WaveOf(a) == [n \in DOMAIN a |-> [k \in Grid |-> IF k = 0 THEN a[n] ELSE 1]]
\* The Bessel combination a1 j_l(q1 r) + a2 j_l(q2 r) on the grid, before
\* the cut at rcomp: 1 and a value g of GlVals, alternating.
GlVals == {0, 1}
GlRawOf(g, nl) == [l \in 0 .. nl - 1 |-> [k \in Grid |-> IF (l + k) % 2 = 0 THEN 1 ELSE g]]

\* The variables of the other parts of the program, when a run does not use them.
NoFq ==
    /\ roots = {} /\ fq_pc = "idle" /\ nfound = 0 /\ xinit = 0 /\ x1 = 0 /\ x2 = 0
    /\ fx1 = 0 /\ fx2 = 0 /\ fq_ret = <<0, 0>> /\ nsteps = 0

NoAl ==
    /\ al_pc = "idle" /\ Amat = <<<<0, 0>>, <<0, 0>>>> /\ quad_converged = <<>>
    /\ al_a = <<>> /\ gl_row = <<>>

NoPw ==
    /\ ngrid = <<1, 1, 1>> /\ Bcell = <<>> /\ wfc = <<>>
    /\ gvectors_cart_attr = <<>> /\ pw_ret = <<>>

InitAttrs ==
    /\ gl = Unset /\ coulomb_kernel = Unset /\ Delta_Li1i2 = Unset
    /\ integral_1234_ae = Unset /\ integral_1234_ps = Unset
    /\ integral_phi12_gl = Unset /\ integral_gl = Unset /\ DeltaC_1234 = Unset
    /\ ncomp = [g \in Getters |-> 0]
    /\ ret = [call |-> "none", val |-> Unset]

InitData(tables, rcomps, gls) ==
    /\ proj_l \in ProjConfigs
    /\ ilm = IlmFrom(0)
    /\ lmidx = LmFrom(0)
    /\ rcomp_idx \in rcomps
    /\ \E a \in [0 .. npro - 1 -> WavInner], p \in [0 .. npro - 1 -> WavInner] :
          /\ paw_ae_wfc = WaveOf(a)
          /\ paw_ps_wfc = WaveOf(p)
    /\ gaunt \in tables
    /\ \E g \in gls : glraw = GlRawOf(g, lmax)

Init ==
    /\ InitData({[diag |-> 2, off |-> 1]}, {NGrid - 1}, {1})
    /\ InitAttrs
    /\ NoFq /\ NoAl /\ NoPw

Next ==
    \/ set_comp_function
    \/ get_coulomb_kernel
    \/ get_Delta_Li1i2
    \/ \E use_ps_wav \in BOOLEAN : get_integral_1234(use_ps_wav)
    \/ get_integral_phi12_gl
    \/ get_integral_gl
    \/ get_DeltaC_1234

Spec == Init /\ [][Next]_vars

\* The same object, over every table, cut and compensation charge of the
\* family, called for its four-centre integrals and its correction tensor.
InitTensor ==
    /\ InitData(GauntTables, 1 .. NGrid - 1, GlVals)
    /\ InitAttrs
    /\ NoFq /\ NoAl /\ NoPw

NextTensor ==
    \/ set_comp_function
    \/ \E use_ps_wav \in BOOLEAN : get_integral_1234(use_ps_wav)
    \/ get_DeltaC_1234

SpecTensor == InitTensor /\ [][NextTensor]_vars

-----------------------------------------------------------------------------
\* set_comp_function.find_q(L): the two roots of j_L by bracketing and
\* bisection.  Abscissas are counted in units of 1/FqOne; every point the
\* search evaluates is an even number of units, so that a root of j_L at an
\* odd abscissa is never evaluated (as the irrational roots of a Bessel
\* function are not) and a root at an even one can be hit exactly.

FqBits == 4                     \* 1.0 is 2^FqBits units
FqOne == Pow(2, FqBits)
THRESHOLD == 2                  \* THRESHOLD = 1E-10, in units
MaxExpand == 6                  \* horizon: bracket steps the model follows per root

\* spherical_jn(L, x), by its sign: positive up to the first root, changing
\* sign at every root, zero at a root.
RootsBelow(x) == Cardinality({r \in roots : r < x})
spherical_jn(x) ==
    IF x \in roots THEN 0 ELSE IF RootsBelow(x) % 2 = 0 THEN 1 ELSE -1

\* for nfound in range(2): x1 = xinit; x2 = x1 + 1.0; fx1, fx2
fq_begin ==
    /\ fq_pc = "begin"
    /\ x1' = xinit
    /\ x2' = xinit + FqOne
    /\ fx1' = spherical_jn(xinit)
    /\ fx2' = spherical_jn(xinit + FqOne)
    /\ nsteps' = 0
    /\ fq_pc' = "expand"
    /\ UNCHANGED <<notFq, roots, nfound, xinit, fq_ret>>

\* while fx1 * fx2 > 0: x2 += 1.0; fx2 = spherical_jn(L, x2)
fq_expand ==
    /\ fq_pc = "expand"
    /\ fx1 * fx2 > 0
    /\ nsteps < MaxExpand
    /\ x2' = x2 + FqOne
    /\ fx2' = spherical_jn(x2 + FqOne)
    /\ nsteps' = nsteps + 1
    /\ UNCHANGED <<notFq, roots, fq_pc, nfound, xinit, x1, fx1, fq_ret>>

\* the loop is left: x1 = x2 - 1.0; fx1 = spherical_jn(L, x1)
fq_bracketed ==
    /\ fq_pc = "expand"
    /\ ~(fx1 * fx2 > 0)
    /\ x1' = x2 - FqOne
    /\ fx1' = spherical_jn(x2 - FqOne)
    /\ fq_pc' = "bisect"
    /\ UNCHANGED <<notFq, roots, nfound, xinit, x2, fx2, fq_ret, nsteps>>

\* while x2 - x1 > THRESHOLD: one bisection step
fq_bisect ==
    /\ fq_pc = "bisect"
    /\ x2 - x1 > THRESHOLD
    /\ LET mid  == (x1 + x2) \div 2
           fmid == spherical_jn(mid)
       IN  IF fx1 * fmid < 0
           THEN x2' = mid /\ fx2' = fmid /\ UNCHANGED <<x1, fx1>>
           ELSE x1' = mid /\ fx1' = fmid /\ UNCHANGED <<x2, fx2>>
    /\ UNCHANGED <<notFq, roots, fq_pc, nfound, xinit, fq_ret, nsteps>>

\* the loop is left: ret[nfound] = x1; xinit = x2; the next root, or return ret
fq_found ==
    /\ fq_pc = "bisect"
    /\ ~(x2 - x1 > THRESHOLD)
    /\ fq_ret' = [fq_ret EXCEPT ![nfound + 1] = x1]
    /\ xinit' = x2
    /\ nfound' = nfound + 1
    /\ fq_pc' = IF nfound + 1 < 2 THEN "begin" ELSE "done"
    /\ UNCHANGED <<notFq, roots, x1, x2, fx1, fx2, nsteps>>

\* The functions find_q is run on: the first root between 3.0 and 4.0, the
\* roots at least 3.0 apart (as those of every j_L are), and functions with
\* fewer than two sign changes.
FirstRoots == 3 * FqOne .. 4 * FqOne
RootGaps == 3 * FqOne .. 4 * FqOne
RootSets ==
    {{}} \cup {{r} : r \in FirstRoots}
         \cup {{r, r + g} : r \in FirstRoots, g \in RootGaps}

NoPaw ==
    /\ proj_l = <<0>> /\ ilm = <<>> /\ lmidx = <<>> /\ rcomp_idx = 0
    /\ paw_ae_wfc = <<>> /\ paw_ps_wfc = <<>> /\ gaunt = [diag |-> 0, off |-> 0]
    /\ glraw = <<>>
    /\ InitAttrs

InitFindQ ==
    /\ roots \in RootSets
    /\ fq_pc = "begin" /\ nfound = 0 /\ xinit = FqOne
    /\ x1 = 0 /\ x2 = 0 /\ fx1 = 0 /\ fx2 = 0 /\ fq_ret = <<0, 0>> /\ nsteps = 0
    /\ NoPaw /\ NoAl /\ NoPw

NextFindQ == fq_begin \/ fq_expand \/ fq_bracketed \/ fq_bisect \/ fq_found

SpecFindQ == InitFindQ /\ [][NextFindQ]_vars

-----------------------------------------------------------------------------
\* set_comp_function.find_alpha(R, q, l), and the row of gl built from its
\* result.  The values of the Bessel terms and of the quadrature are inputs.

MaxQuad == 2                    \* quadrature values are 0..MaxQuad
MaxDeriv == 1                   \* q * j_l'(q R) is -MaxDeriv..MaxDeriv

\* spherical_jn(l, q[i] * rgrid[k]): the two Bessel terms on the grid.
jn_on_grid(i, k) == IF (i + k) % 2 = 0 THEN 1 ELSE -1

\* Amat[0, 0] and Amat[0, 1]: the derivative row.
al_row0 ==
    /\ al_pc = "row0"
    /\ \E d0 \in -MaxDeriv .. MaxDeriv, d1 \in -MaxDeriv .. MaxDeriv :
          Amat' = [Amat EXCEPT ![1] = <<d0, d1>>]
    /\ al_pc' = "int0"
    /\ UNCHANGED <<notAl, quad_converged, al_a, gl_row>>

\* glr_int: val, err = quadrature(..., maxiter=32); return val.  The
\* quadrature gives a value and says (by err and a warning) whether it met
\* its tolerance; glr_int returns the value.
glr_int(val, converged) == val

\* Amat[1, j] = glr_int(R, q[j], l), for j = 0 and then j = 1.
al_int(j) ==
    /\ al_pc = (IF j = 0 THEN "int0" ELSE "int1")
    /\ \E val \in 0 .. MaxQuad, converged \in BOOLEAN :
          /\ Amat' = [Amat EXCEPT ![2][j + 1] = glr_int(val, converged)]
          /\ quad_converged' = Append(quad_converged, converged)
    /\ al_pc' = (IF j = 0 THEN "int1" ELSE "solve")
    /\ UNCHANGED <<notAl, al_a, gl_row>>

\* solve(Amat, [0, 1]): the solution by its numerators over the determinant;
\* a singular matrix raises LinAlgError.
al_solve ==
    /\ al_pc = "solve"
    /\ LET det == Amat[1][1] * Amat[2][2] - Amat[1][2] * Amat[2][1]
       IN  IF det = 0
           THEN al_pc' = "LinAlgError" /\ UNCHANGED al_a
           ELSE al_pc' = "append" /\ al_a' = <<-Amat[1][2], Amat[1][1], det>>
    /\ UNCHANGED <<notAl, Amat, quad_converged, gl_row>>

\* gl.append(a[0] * spherical_jn(l, q[0] * rgrid) + a[1] * spherical_jn(l, q[1] * rgrid)),
\* in units of 1/det.
al_append ==
    /\ al_pc = "append"
    /\ gl_row' = [k \in Grid |-> al_a[1] * jn_on_grid(0, k) + al_a[2] * jn_on_grid(1, k)]
    /\ al_pc' = "done"
    /\ UNCHANGED <<notAl, Amat, quad_converged, al_a>>

InitAlpha ==
    /\ al_pc = "row0" /\ Amat = <<<<0, 0>>, <<0, 0>>>> /\ quad_converged = <<>>
    /\ al_a = <<>> /\ gl_row = <<>>
    /\ NoPaw /\ NoFq /\ NoPw

NextAlpha == al_row0 \/ (\E j \in 0 .. 1 : al_int(j)) \/ al_solve \/ al_append

SpecAlpha == InitAlpha /\ [][NextAlpha]_vars

-----------------------------------------------------------------------------
\* PWCoulombIntegral.  A complex number is <<re, im>>.  The flattened grid
\* index i of (ix, iy, iz) is (ix * Ny + iy) * Nz + iz, for the density
\* (flatten) as for the G vectors (meshgrid with indexing='ij', reshape).

MaxN == 4                       \* each grid dimension is 1..MaxN
MaxFFTPts == 4                  \* coulomb_integral is followed on grids up to this size

Nx == ngrid[1]
Ny == ngrid[2]
Nz == ngrid[3]
NPts == Nx * Ny * Nz
Pts == 0 .. NPts - 1
Ix(i) == i \div (Ny * Nz)
Iy(i) == (i \div Nz) % Ny
Iz(i) == i % Nz

CMul(a, b) == <<a[1] * b[1] - a[2] * b[2], a[1] * b[2] + a[2] * b[1]>>
CAdd(a, b) == <<a[1] + b[1], a[2] + b[2]>>
conj_dropped(a) == a
conj(a) == <<a[1], -a[2]>>
RECURSIVE CSum(_, _, _)
CSum(f, lo, hi) == IF lo > hi THEN <<0, 0>> ELSE CAdd(f[lo], CSum(f, lo + 1, hi))

\* wfc_r(iband): the band on the real-space grid (vaspwfc).
wfc_r(iband) == wfc[iband]

\* fftn: the 3D discrete Fourier transform, exact on grids whose dimensions
\* divide 4, where exp(-2 pi i k r / N) is a power of -i.
FFTExact == \A d \in 1 .. 3 : ngrid[d] \in {1, 2, 4}
QuarterTurns(k, r) ==
    (Ix(k) * Ix(r) * (4 \div Nx) + Iy(k) * Iy(r) * (4 \div Ny) + Iz(k) * Iz(r) * (4 \div Nz)) % 4
MinusIPow(e) == CASE e = 0 -> <<1, 0>> [] e = 1 -> <<0, -1>> [] e = 2 -> <<-1, 0>> [] e = 3 -> <<0, 1>>
fftn(S) == [k \in Pts |-> CSum([r \in Pts |-> CMul(S[r], MinusIPow(QuarterTurns(k, r)))], 0, NPts - 1)]

\* density_matrix(m, n) = fftn(um.conj() * un)
density_matrix(m, n) ==
    LET um == wfc_r(m)
        un == wfc_r(n)
    IN  Arr(fftn([r \in Pts |-> CMul(conj(um[r]), un[r])]))

\* gvectors_cart: fx = arange(n); fx[n // 2 + 1:] -= n, for each dimension.
FoldFreq_from_half(n, i) == IF i >= n \div 2 THEN i - n ELSE i
FoldFreq(n, i) == IF i >= n \div 2 + 1 THEN i - n ELSE i
kgrid(i) == <<FoldFreq(Nx, Ix(i)), FoldFreq(Ny, Iy(i)), FoldFreq(Nz, Iz(i))>>
\* kgrid @ self._Bcell
MatVec(k, B) == [j \in 1 .. 3 |-> k[1] * B[1][j] + k[2] * B[2][j] + k[3] * B[3][j]]
Compute_gvectors_cart == [i \in Pts |-> MatVec(kgrid(i), Bcell)]

gvectors_cart ==
    /\ Bcell # <<>>
    /\ gvectors_cart_attr' = Got(gvectors_cart_attr, Compute_gvectors_cart)
    /\ UNCHANGED <<notPw, ngrid, Bcell, wfc, pw_ret>>

\* np.linalg.norm(G, axis=-1) ** 2
Gsqr(G) == [i \in DOMAIN G |-> G[i][1] * G[i][1] + G[i][2] * G[i][2] + G[i][3] * G[i][3]]

RECURSIVE Gcd(_, _)
Gcd(a, b) == IF b = 0 THEN a ELSE Gcd(b, a % b)
RECURSIVE LcmFrom(_, _, _)
LcmFrom(g, lo, hi) ==
    IF lo > hi THEN 1
    ELSE LET rest == LcmFrom(g, lo + 1, hi) IN (g[lo] * rest) \div Gcd(g[lo], rest)

\* np.sum(rhomn[1:] * rhopq[1:] / Gsqr[1:]) * (EDEPS / self._Omega / TPI**2):
\* the sum as <<re, im, den>> over the common denominator den of the terms, in
\* units of EDEPS / Omega / TPI**2 (a positive number); den = 0 stands for the
\* inf or nan of a division by zero.
CoulombSum(rhomn, rhopq, G2) ==
    IF \E i \in 1 .. NPts - 1 : G2[i] = 0 THEN <<0, 0, 0>>
    ELSE LET den == LcmFrom(G2, 1, NPts - 1)
             tot == CSum([i \in 1 .. NPts - 1 |->
                            LET t == CMul(rhomn[i], rhopq[i])
                            IN  <<t[1] * (den \div G2[i]), t[2] * (den \div G2[i])>>],
                         1, NPts - 1)
         IN  <<tot[1], tot[2], den>>

\* rhomn = density_matrix(m, n).flatten().conj()
Rho_mn(m, n) == LET rho == density_matrix(m, n) IN Arr([i \in Pts |-> conj(rho[i])])

coulomb_integral(m, n, p, q) ==
    /\ Bcell # <<>>
    /\ FFTExact /\ NPts <= MaxFFTPts
    /\ gvectors_cart_attr' = Got(gvectors_cart_attr, Compute_gvectors_cart)
    /\ pw_ret' = [args |-> <<m, n, p, q>>,
                  val |-> CoulombSum(Rho_mn(m, n), density_matrix(p, q),
                                     Gsqr(gvectors_cart_attr'))]
    /\ UNCHANGED <<notPw, ngrid, Bcell, wfc>>

\* The cells, bands and grids a run starts from.  A band is 1 on the grid
\* but at one point off the origin, where it is one of WavVals.
Bands == {1, 2}
WavVals == {<<0, 0>>, <<1, 0>>, <<0, 1>>}
Bcells == {<<<<1, 0, 0>>, <<0, 1, 0>>, <<0, 0, 1>>>>,
           <<<<1, 1, 0>>, <<0, 1, 0>>, <<0, 0, 2>>>>}
BandOf(c) == [r \in Pts |-> IF r = Min(1, NPts - 1) THEN c ELSE <<1, 0>>]

InitPW ==
    /\ ngrid \in (1 .. MaxN) \X (1 .. MaxN) \X (1 .. MaxN)
    /\ Bcell \in Bcells
    /\ \E c \in [Bands -> WavVals] : wfc = [b \in Bands |-> BandOf(c[b])]
    /\ gvectors_cart_attr = <<>>
    /\ pw_ret = <<>>
    /\ NoPaw /\ NoFq /\ NoAl

NextPW ==
    \/ gvectors_cart
    \/ \E m \in Bands, n \in Bands, p \in Bands, q \in Bands : coulomb_integral(m, n, p, q)

SpecPW == InitPW /\ [][NextPW]_vars

-----------------------------------------------------------------------------
\* Properties.

Quads == Ch \X Ch \X Ch \X Ch
AllZero(T) == \A x \in DOMAIN T : T[x] = 0
SomeNonZero(T) == \E x \in DOMAIN T : T[x] # 0

\* C1: for a species whose all-electron and pseudo partial waves are
\* identical, every entry of the tensor get_DeltaC_1234 returns is zero, for
\* every Gaunt table, compensation charge and cut of the family.
C1_DeltaCVanishes ==
    (hasattr(DeltaC_1234) /\ paw_ae_wfc = paw_ps_wfc) => AllZero(DeltaC_1234)

\* C1 witness: the tensor was assembled for identical waves from four-centre
\* integrals, a cross term and a self term that are not zero themselves.
C1_Witness ==
    /\ hasattr(DeltaC_1234) /\ paw_ae_wfc = paw_ps_wfc
    /\ SomeNonZero(integral_1234_ae)
    /\ SomeNonZero(integral_phi12_gl)
    /\ SomeNonZero(integral_gl)
    /\ ret.call = "get_DeltaC_1234" /\ AllZero(ret.val)

\* C2: the tensor of get_integral_1234 is invariant under i1 <-> i2, under
\* i3 <-> i4 and under (i1,i2) <-> (i3,i4), for every Gaunt table symmetric
\* in its first two (l,m) arguments.
ExchangeSymmetric(T) ==
    \A q \in Quads :
        /\ T[q] = T[<<q[2], q[1], q[3], q[4]>>]
        /\ T[q] = T[<<q[1], q[2], q[4], q[3]>>]
        /\ T[q] = T[<<q[3], q[4], q[1], q[2]>>]
C3_WavesOfRequest ==
    /\ hasattr(integral_1234_ps) => integral_1234_ps = Integral1234(paw_ps_wfc)
    /\ hasattr(integral_1234_ae) => integral_1234_ae = Integral1234(paw_ae_wfc)
    /\ hasattr(DeltaC_1234) =>
          DeltaC_1234 = DeltaC(Delta_Li1i2, integral_phi12_gl, integral_gl,
                               Integral1234(paw_ae_wfc), Integral1234(paw_ps_wfc))

\* C4: once set_comp_function has run, gl[l][k] = 0 for every l and every
\* k >= rcomp_idx, and no later call changes gl.
GlZeroBeyondRcomp ==
    hasattr(gl) => \A l \in 0 .. lmax - 1 : \A k \in Grid : k >= rcomp_idx => gl[l][k] = 0
C4_GlCutAndKept ==
    /\ []GlZeroBeyondRcomp
    /\ [][hasattr(gl) => gl' = gl]_vars

\* C4 witness: the Bessel combination was not zero at or beyond rcomp, gl
\* was cut, and the getters that read gl have run.
C4_Witness ==
    /\ hasattr(gl) /\ rcomp_idx < NGrid
    /\ \A l \in 0 .. lmax - 1 : \A k \in Grid : glraw[l][k] # 0
    /\ \A l \in 0 .. lmax - 1 : gl[l][rcomp_idx] = 0 /\ gl[l][0] = glraw[l][0]
    /\ hasattr(integral_phi12_gl) /\ hasattr(integral_gl) /\ hasattr(DeltaC_1234)

\* C7: every derived tensor is computed at most once, exactly when it is first
\* asked for; a stored tensor is never changed by any later call; and every
\* getter returns the tensor of its own attribute (get_integral_1234 the
\* pseudo one for a pseudo request, the all-electron one otherwise).
AttrOf(g) ==
    CASE g = "get_coulomb_kernel" -> coulomb_kernel
      [] g = "get_Delta_Li1i2" -> Delta_Li1i2
      [] g = "get_integral_1234_ae" -> integral_1234_ae
      [] g = "get_integral_1234_ps" -> integral_1234_ps
      [] g = "get_integral_phi12_gl" -> integral_phi12_gl
      [] g = "get_integral_gl" -> integral_gl
      [] g = "get_DeltaC_1234" -> DeltaC_1234
ComputedOnce ==
    /\ \A g \in Getters : ncomp[g] <= 1 /\ (ncomp[g] = 1 <=> AttrOf(g) # Unset)
    /\ ret.call \in Getters => (ret.val # Unset /\ ret.val = AttrOf(ret.call))
StoredKept ==
    /\ coulomb_kernel # Unset => coulomb_kernel' = coulomb_kernel
    /\ Delta_Li1i2 # Unset => Delta_Li1i2' = Delta_Li1i2
    /\ integral_1234_ae # Unset => integral_1234_ae' = integral_1234_ae
    /\ integral_1234_ps # Unset => integral_1234_ps' = integral_1234_ps
    /\ integral_phi12_gl # Unset => integral_phi12_gl' = integral_phi12_gl
    /\ integral_gl # Unset => integral_gl' = integral_gl
    /\ DeltaC_1234 # Unset => DeltaC_1234' = DeltaC_1234
C7_ComputedOnceAndKept ==
    /\ []ComputedOnce
    /\ [][StoredKept]_vars

\* C7 witness: get_DeltaC_1234 has stored all six tensors, the two four-centre
\* tensors differ, and a later pseudo request was answered from the pseudo
\* attribute without a second computation.
C7_Witness ==
    /\ \A g \in Getters : ncomp[g] = 1
    /\ integral_1234_ae # integral_1234_ps
    /\ ret.call = "get_integral_1234_ps" /\ ret.val = integral_1234_ps

\* C5: find_q returns [x1, x2] with x1 < x2, each within THRESHOLD of the
\* smallest and the second smallest root; during each bisection [x1, x2]
\* holds a root, also after a midpoint that is a root; and the second search
\* starts strictly past the first root.
RootNo(i) == CHOOSE r \in roots : Cardinality({s \in roots : s < r}) = i - 1
ExpandLimit == MaxExpand - 1
C6_ExpansionBounded == nsteps <= ExpandLimit

\* C10: a quadrature that does not meet its tolerance ends find_alpha with a
\* QuadratureNonconvergence error: its value is not placed in the 2x2 system
\* and no gl row is built from it.
C10_NonconvergenceSurfaced ==
    (\E i \in DOMAIN quad_converged : ~quad_converged[i]) =>
        /\ al_pc = "QuadratureNonconvergence"
        /\ gl_row = <<>>

\* C8: in the grid built by gvectors_cart, entry 0 is the zero vector and the
\* only one; the entries 1.. are the nonzero vectors of the folded grid, each
\* once; and the sum of coulomb_integral never divides by |G|^2 = 0.
FoldedRange(n) == {f \in -n .. n : -(n - 1 - n \div 2) <= f /\ f <= n \div 2}
C8_OnlyGZeroExcluded ==
    /\ hasattr(gvectors_cart_attr) =>
          /\ DOMAIN gvectors_cart_attr = Pts
          /\ kgrid(0) = <<0, 0, 0>> /\ gvectors_cart_attr[0] = <<0, 0, 0>>
          /\ \A i \in 1 .. NPts - 1 : Gsqr(gvectors_cart_attr)[i] # 0
          /\ \A i \in Pts : \A j \in Pts : i # j => gvectors_cart_attr[i] # gvectors_cart_attr[j]
          /\ {kgrid(i) : i \in Pts} = FoldedRange(Nx) \X FoldedRange(Ny) \X FoldedRange(Nz)
    /\ pw_ret # <<>> => pw_ret.val[3] # 0

\* C8 witness: on a grid with an index folded to a negative component, the G
\* vectors were built and the sum over the entries 1.. was taken.
C8_Witness ==
    /\ hasattr(gvectors_cart_attr)
    /\ \E i \in 1 .. NPts - 1 : kgrid(i)[1] < 0
    /\ pw_ret # <<>> /\ pw_ret.val[3] > 0

\* C9: coulomb_integral(b, b, b, b) is real and not negative.
C9_SelfCoulombRealNonNegative ==
    (pw_ret # <<>> /\ \E b \in Bands : pw_ret.args = <<b, b, b, b>>) =>
        /\ pw_ret.val[3] > 0
        /\ pw_ret.val[2] = 0
        /\ pw_ret.val[1] >= 0

\* C9 witness: a self-Coulomb sum, positive, over a density whose transform
\* has a component that is not real.
C9_Witness ==
    /\ pw_ret # <<>> /\ \E b \in Bands : pw_ret.args = <<b, b, b, b>>
    /\ pw_ret.val[1] > 0
    /\ \E i \in Pts : density_matrix(pw_ret.args[1], pw_ret.args[1])[i][2] # 0

\* C11: integral_gl has one entry per (l,m), in the order of lmidx, and its
\* entry iL is the self term of lmidx[iL], the (l,m) of Delta_Li1i2[iL, ., .].
SelfTermOf(iL) == Sum([iL2 \in LIdx |-> IntegralGl_term(iL, iL2)], 0, nL - 1)
C11_IntegralGlByAngularIndex ==
    hasattr(integral_gl) =>
        /\ DOMAIN integral_gl = LIdx
        /\ \A iL \in LIdx : integral_gl[iL] = SelfTermOf(iL)

\* C12: the radial double integral of the cross term uses grid points of
\* index < rcomp_idx only, in the outer sum over r' and in the inner Simpson
\* integral over r: integral_phi12_gl is what the assembly gives from the
\* radial part with both restricted to the augmentation sphere.
Phi12Gl_radial_inside(n1, n2, l3, l) ==
    Sum([irp \in 0 .. rcomp_idx - 1 |->
            Phi12Gl_summand(TRUE, gl[l][irp], n1, n2, l3, l, irp)],
        0, rcomp_idx - 1)
C12_CrossTermInsideSphere ==
    hasattr(integral_phi12_gl) =>
        integral_phi12_gl = Phi12Gl_assemble(Arr([t \in Phi12Gl_shape |->
                                Phi12Gl_radial_inside(t[1], t[2], t[3], t[4])]))

\* C13: the summand of radial_integral[n1, n2, l3, l] at irp is
\* 4 pi / (2l+1) * (inner integral at row irp) * r'^2 * g_l3(r') * weight[irp]
\* with r' = rgrid[irp], gl entering once: integral_phi12_gl is what the
\* assembly gives from these summands.
Phi12Gl_radial_of_rgrid(n1, n2, l3, l) ==
    Sum([irp \in 0 .. rcomp_idx - 1 |->
            Phi12Gl_summand(FALSE, rgrid[irp], n1, n2, l3, l, irp)],
        0, rcomp_idx - 1)
C13_SummandOfGridRadius ==
    hasattr(integral_phi12_gl) =>
        integral_phi12_gl = Phi12Gl_assemble(Arr([t \in Phi12Gl_shape |->
                                Phi12Gl_radial_of_rgrid(t[1], t[2], t[3], t[4])]))

====
